---- MODULE Spec2Model ----
(***************************************************************************)
(* A model of aura-exp-sniffer: the Aura session bootstrap pipeline        *)
(* (endpoint probing, config extraction, route collection, component       *)
(* mining, action requests) and the typer callback that drives it.         *)
(*                                                                         *)
(* Text is modelled as a sequence of tokens.  URLs are sequences of single *)
(* characters, so that Python's substring, prefix and suffix tests are     *)
(* computed as the code computes them.                                     *)
(***************************************************************************)
EXTENDS Integers, Sequences, FiniteSets, TLC

VARIABLES
    pc,     \* position of the CLI process: callback, command, finished
    obj,    \* cli_context.obj, the session context (NoObj before creation)
    argv,   \* what sys.argv and the parsed options hold for this process
    http,   \* the calls of BasicHttp.request since the callback was entered
    entries,\* how often the callback has been entered
    arg,    \* input of the function under study (function-level specifications)
    ret     \* its result

vars == <<pc, obj, argv, http, entries, arg, ret>>

(***************************************************************************)
(* Python string operations on token sequences.                            *)
(***************************************************************************)
\* str.startswith
StartsWith(s, p) ==
    /\ Len(p) <= Len(s)
    /\ SubSeq(s, 1, Len(p)) = p

\* str.endswith
EndsWith(s, p) ==
    /\ Len(p) <= Len(s)
    /\ SubSeq(s, Len(s) - Len(p) + 1, Len(s)) = p

\* sub in s
Contains(s, sub) ==
    \E i \in 1..(Len(s) - Len(sub) + 1) : SubSeq(s, i, i + Len(sub) - 1) = sub

Range(s) == {s[i] : i \in 1..Len(s)}

(***************************************************************************)
(* Transport: BasicHttp.                                                   *)
(***************************************************************************)
NoSid == ""

\* BasicHttp.__init__: the cookie jar holds sid only for a truthy value.
BasicHttp(salesforce_sid_cookie_value) ==
    IF salesforce_sid_cookie_value # NoSid
        THEN {<<"sid", salesforce_sid_cookie_value>>}
        ELSE {}

NoValues == [none |-> TRUE]

\* BasicHttp.request: what goes on the wire for one call.
Request(cookies, url, values, method) ==
    [method |-> method, url |-> url, values |-> values, cookies |-> cookies]

\* A response is a body (text) or a RequestException raised by the transport.
Body(text) == [kind |-> "body", text |-> text]
NetError == [kind |-> "error"]

(***************************************************************************)
(* Endpoint prober: AuraEndpointSelector.                                  *)
(***************************************************************************)
aura_endpoints ==
    << <<"a","u","r","a">>,
       <<"s","/","a","u","r","a">>,
       <<"s","/","s","f","s","i","t","e","s","/","a","u","r","a">>,
       <<"s","f","s","i","t","e","s","/","a","u","r","a">> >>

\* f"{self.url}/{endpoint}"
CandidateUrl(url, endpoint) == url \o <<"/">> \o endpoint

InvalidSessionMarker == <<"aura:invalidSession">>

\* A mutant: the except branch answers True.
is_endpoint_available_ErrorCounts(response) ==
    IF response.kind = "error"
        THEN TRUE
        ELSE Contains(response.text, InvalidSessionMarker)

\* _is_endpoint_available: the POST's body carries the marker; an exception
\* of the request is swallowed and answers False.
is_endpoint_available(response) ==
    IF response.kind = "error"
        THEN FALSE
        ELSE Contains(response.text, InvalidSessionMarker)

\* _check_endpoints_availability: the loop over the candidates, in order;
\* responses[i] is what the i-th probe receives.
RECURSIVE check_endpoints_availability(_, _, _, _)
\* A mutant: an exception of one probe ends the loop.
check_endpoints_availability_AbortsOnError(url, endpoints, responses, i) ==
    IF i > Len(endpoints) \/ responses[i].kind = "error"
        THEN <<>>
        ELSE LET candidate == CandidateUrl(url, endpoints[i])
                 rest == check_endpoints_availability(url, endpoints, responses, i + 1)
             IN  IF is_endpoint_available(responses[i])
                     THEN <<candidate>> \o rest
                     ELSE rest

check_endpoints_availability(url, endpoints, responses, i) ==
    IF i > Len(endpoints)
        THEN <<>>
        ELSE LET candidate == CandidateUrl(url, endpoints[i])
                 rest == check_endpoints_availability(url, endpoints, responses, i + 1)
             IN  IF is_endpoint_available(responses[i])
                     THEN <<candidate>> \o rest
                     ELSE rest

\* The probes the loop issues: one POST per candidate, no values, no cookie.
ProbeRequests(url, endpoints) ==
    [i \in 1..Len(endpoints) |->
        Request(BasicHttp(NoSid), CandidateUrl(url, endpoints[i]), NoValues, "POST")]

SfsitesPattern == <<"s","/","s","f","s","i","t","e","s","/">>

\* _select_preferred_endpoint: the first available URL that contains
\* "s/sfsites/", else the first available URL.
select_preferred_endpoint(available_endpoints) ==
    LET hits == {i \in 1..Len(available_endpoints) :
                    Contains(available_endpoints[i], SfsitesPattern)}
    IN  IF hits # {}
            THEN available_endpoints[CHOOSE i \in hits : \A j \in hits : i <= j]
            ELSE available_endpoints[1]

Ok(value) == [ok |-> TRUE, value |-> value, error |-> "none"]
Raise(error) == [ok |-> FALSE, value |-> <<>>, error |-> error]

\* select_aura_endpoint on a fresh selector (active_endpoint is None).
select_aura_endpoint(url, responses) ==
    LET available_endpoints ==
            check_endpoints_availability(url, aura_endpoints, responses, 1)
    IN  IF available_endpoints = <<>>
            THEN Raise("NoEndpointFoundError")
            ELSE Ok(select_preferred_endpoint(available_endpoints))

(***************************************************************************)
(* JSON values, as json.loads builds them.  An object keeps its items in   *)
(* insertion order, as a Python dict does.                                 *)
(***************************************************************************)
JNull == [t |-> "null"]              \* None
JAbsent == [t |-> "absent"]          \* marks a key an object does not carry
JBool(b) == [t |-> "bool", b |-> b]
JNum(n) == [t |-> "num", n |-> n]
JStr(s) == [t |-> "str", s |-> s]
JList(items) == [t |-> "list", items |-> items]
JObj(kv) == [t |-> "obj", kv |-> kv]

\* Python truthiness of a JSON value.
Truthy(v) ==
    CASE v.t = "str" -> v.s # <<>>
      [] v.t = "obj" -> v.kv # <<>>
      [] v.t = "list" -> v.items # <<>>
      [] v.t = "bool" -> v.b
      [] v.t = "num" -> v.n # 0
      [] OTHER -> FALSE

\* key in dict
HasKey(o, key) == \E i \in 1..Len(o.kv) : o.kv[i][1] = key

\* dict.get(key): the value of the last item with that key, None if none.
Get(o, key) ==
    LET hits == {i \in 1..Len(o.kv) : o.kv[i][1] = key}
    IN  IF hits = {}
            THEN JNull
            ELSE o.kv[CHOOSE i \in hits : \A j \in hits : j <= i][2]

\* x is None
IsNone(v) == v.t = "null"

(***************************************************************************)
(* Percent-encoding of the characters the model uses.                      *)
(***************************************************************************)
\* How the page's author escapes one character of the embedded blob.
QuoteChar(c) ==
    CASE c = "/" -> "%2F"
      [] c = "%" -> "%25"
      [] c = ":" -> "%3A"
      [] OTHER -> c

\* urllib.parse.unquote on one token.
UnquoteChar(c) ==
    CASE c = "%2F" -> "/"
      [] c = "%25" -> "%"
      [] c = "%3A" -> ":"
      [] OTHER -> c

Quote(s) == [i \in 1..Len(s) |-> QuoteChar(s[i])]
Unquote(s) == [i \in 1..Len(s) |-> UnquoteChar(s[i])]

\* The encoding and decoding act on the strings of a blob; a blob's values
\* are strings or (string-free) objects, lists and scalars.
QuoteValue(v) == IF v.t = "str" THEN JStr(Quote(v.s)) ELSE v
UnquoteValue(v) == IF v.t = "str" THEN JStr(Unquote(v.s)) ELSE v

QuoteBlob(o) == JObj([i \in 1..Len(o.kv) |-> <<o.kv[i][1], QuoteValue(o.kv[i][2])>>])

\* json.loads(urllib.parse.unquote(captured segment))
LoadsUnquote(o) == JObj([i \in 1..Len(o.kv) |-> <<o.kv[i][1], UnquoteValue(o.kv[i][2])>>])

(***************************************************************************)
(* A page body, by the parts the extractor's patterns look at.             *)
(*   redirects  the targets of the window.location.href ='...' assignments *)
(*   scripts    the attribute text of each <script ...>...</script> tag    *)
(*   fwuid_text the literal fwuid occurs outside an embedded blob          *)
(*   blob       the segment after /s/sfsites/l/, up to the next slash      *)
(***************************************************************************)
NoBlob == [t |-> "noblob"]
BadBlob == [t |-> "badjson"]         \* a captured segment that is not JSON

Page(redirects, scripts, fwuid_text, blob) ==
    [redirects |-> redirects, scripts |-> scripts,
     fwuid_text |-> fwuid_text, blob |-> blob]

PageResponse(page) == [kind |-> "page", page |-> page]

\* The pattern [^\/]+fwuid[^\/]+ needs the literal fwuid inside the segment.
BlobHasFwuid(blob) ==
    \/ blob.t = "badjson"
    \/ /\ blob.t = "obj"
       /\ \E i \in 1..Len(blob.kv) :
            \/ blob.kv[i][1] = "fwuid"
            \/ /\ blob.kv[i][2].t = "str"
               /\ Contains(blob.kv[i][2].s, <<"fwuid">>)

\* "fwuid" in raw_response
HasFwuid(page) == page.fwuid_text \/ BlobHasFwuid(page.blob)

(***************************************************************************)
(* Config/bootstrap extractor: AuraConfigLoader.                           *)
(***************************************************************************)
\* _handle_login_page_redirects: whether the body assigns a location that
\* starts with self.url, and the target the pattern then captures (the one
\* of the first assignment in the body).
HasLoginRedirect(url, page) ==
    \E i \in 1..Len(page.redirects) : StartsWith(page.redirects[i], url)

login_page_url(page) == page.redirects[1]

\* str.replace(token, "") on a token sequence
Remove(s, tokens) == SelectSeq(s, LAMBDA c : c \notin tokens)

\* urlsplit(url).scheme + "://" + urlsplit(url).netloc
RECURSIVE Origin(_)
Origin(url) ==
    IF url = <<>> \/ Head(url) = "/"
        THEN <<>>
        ELSE <<Head(url)>> \o Origin(Tail(url))

\* A mutant: the first script tag is taken.
extract_bootstrap_url_FirstTag(url, page) ==
    IF page.scripts = <<>>
        THEN Raise("IndexError")
        ELSE Ok(Origin(url) \o Remove(page.scripts[1], {"src=\"", "\"", " "}))

\* _extract_bootstrap_url: the last script tag's attributes, without
\* src=", quotes and blanks, appended to scheme and host of self.url.
extract_bootstrap_url(url, page) ==
    IF page.scripts = <<>>
        THEN Raise("IndexError")
        ELSE Ok(Origin(url) \o
                Remove(page.scripts[Len(page.scripts)], {"src=\"", "\"", " "}))

\* _extract_aura_endpoint_details
extract_aura_endpoint_details(page) ==
    IF ~HasFwuid(page)
        THEN Raise("NoFwuidFoundError")
        ELSE IF page.blob.t # "noblob" /\ BlobHasFwuid(page.blob)
            THEN IF page.blob.t = "badjson"
                    THEN Raise("JSONDecodeError")
                    ELSE Ok(LoadsUnquote(page.blob))
            ELSE Ok(JObj(<<>>))

RequiredKeys == <<"fwuid", "app", "loaded">>

\* A mutant: the validation looks at presence only.
validate_aura_endpoint_details_PresenceOnly(details) ==
    \A i \in 1..Len(RequiredKeys) : HasKey(details, RequiredKeys[i])

\* _validate_aura_endpoint_details: TRUE when it does not raise.
validate_aura_endpoint_details(details) ==
    \A i \in 1..Len(RequiredKeys) : Truthy(Get(details, RequiredKeys[i]))

\* A mutant: app is filled from fwuid.
build_aura_config_SwapsApp(details) ==
    [mode |-> "PROD",
     fwuid |-> Get(details, "fwuid"),
     app |-> Get(details, "fwuid"),
     loaded |-> Get(details, "loaded"),
     dn |-> JList(<<>>),
     globals |-> JObj(<<>>),
     uad |-> JBool(FALSE)]

\* _build_aura_config
build_aura_config(details) ==
    [mode |-> "PROD",
     fwuid |-> Get(details, "fwuid"),
     app |-> Get(details, "app"),
     loaded |-> Get(details, "loaded"),
     dn |-> JList(<<>>),
     globals |-> JObj(<<>>),
     uad |-> JBool(FALSE)]

\* json.dumps: the serialized form of a value (injective).
JsonDumps(v) == [json |-> v]

\* The result of a call and the requests it issued.
With(result, requests) ==
    [ok |-> result.ok, value |-> result.value, error |-> result.error,
     requests |-> requests]

\* get_aura_config after redirect handling, on the body it goes on with.
ExtractFrom(url, raw_response) ==
    LET bootstrap_url == extract_bootstrap_url(url, raw_response)
        aura_endpoint_details == extract_aura_endpoint_details(raw_response)
    IN  IF ~bootstrap_url.ok THEN bootstrap_url
        ELSE IF ~aura_endpoint_details.ok THEN aura_endpoint_details
        ELSE IF ~validate_aura_endpoint_details(aura_endpoint_details.value)
            THEN Raise("MissingAuraFieldsError")
        ELSE Ok([aura_config |->
                    JsonDumps(build_aura_config(aura_endpoint_details.value)),
                 bootstrap_url |-> bootstrap_url.value])

\* A mutant: the body fetched after a redirect is checked for redirects again.
get_aura_config_FollowsAgain(url, session_id, first, second) ==
    LET get1 == Request(BasicHttp(session_id), url, NoValues, "GET")
        get2 == Request(BasicHttp(NoSid), login_page_url(first.page), NoValues, "GET")
        get3 == Request(BasicHttp(NoSid), login_page_url(second.page), NoValues, "GET")
    IN  IF first.kind = "error"
            THEN With(Raise("TransportError"), <<get1>>)
        ELSE IF ~HasLoginRedirect(url, first.page)
            THEN With(ExtractFrom(url, first.page), <<get1>>)
        ELSE IF second.kind = "error"
            THEN With(Raise("TransportError"), <<get1, get2>>)
        ELSE IF HasLoginRedirect(url, second.page)
            THEN With(ExtractFrom(url, second.page), <<get1, get2, get3>>)
        ELSE With(ExtractFrom(url, second.page), <<get1, get2>>)

\* get_aura_config: first is the answer to the GET of self.url, second the
\* answer to the GET of the redirect target (read only when one is followed).
get_aura_config(url, session_id, first, second) ==
    LET get1 == Request(BasicHttp(session_id), url, NoValues, "GET")
        get2 == Request(BasicHttp(NoSid), login_page_url(first.page), NoValues, "GET")
    IN  IF first.kind = "error"
            THEN With(Raise("TransportError"), <<get1>>)
        ELSE IF ~HasLoginRedirect(url, first.page)
            THEN With(ExtractFrom(url, first.page), <<get1>>)
        ELSE IF second.kind = "error"
            THEN With(Raise("TransportError"), <<get1, get2>>)
        ELSE With(ExtractFrom(url, second.page), <<get1, get2>>)

(***************************************************************************)
(* Values the variables hold while they are not in use.                    *)
(***************************************************************************)
NoObj == [t |-> "none"]
NoArgv == [t |-> "none"]
NoArg == [fn |-> "none"]
NotCalled == [done |-> FALSE]

\* The result of a finished call.
Returned(result) ==
    [done |-> TRUE, ok |-> result.ok, value |-> result.value, error |-> result.error]

(***************************************************************************)
(* Specification SpecSelect: select_aura_endpoint on every base URL and    *)
(* every vector of probe answers.                                          *)
(***************************************************************************)
\* Base URLs as main hands them on: a bare host, a host that ends in s,
\* a site under a path, and a URL that ends in /s (left by an input .../s/).
BaseUrls ==
    { <<"https://", "h">>,
      <<"https://", "h", "s">>,
      <<"https://", "h", "/", "p">>,
      <<"https://", "h", "/", "s">> }

\* What one probe can receive: the invalid-session body, another body, or
\* an exception of the request.
ProbeResponses ==
    { Body(<<"{", "aura:invalidSession", "}">>), Body(<<"404">>), NetError }

SelectInputs ==
    [fn : {"select"}, url : BaseUrls,
     responses : [1..Len(aura_endpoints) -> ProbeResponses]]

InitSelect ==
    /\ pc = "function"
    /\ obj = NoObj
    /\ argv = NoArgv
    /\ http = <<>>
    /\ entries = 0
    /\ arg \in SelectInputs
    /\ ret = NotCalled

SelectAuraEndpoint ==
    /\ arg.fn = "select"
    /\ ret = NotCalled
    /\ ret' = Returned(select_aura_endpoint(arg.url, arg.responses))
    /\ http' = ProbeRequests(arg.url, aura_endpoints)
    /\ UNCHANGED <<pc, obj, argv, entries, arg>>

NextSelect == SelectAuraEndpoint

SpecSelect == InitSelect /\ [][NextSelect]_vars

\* The candidates whose probe answer carries the invalid-session marker.
AvailableIndexes ==
    {i \in 1..Len(aura_endpoints) :
        /\ arg.responses[i].kind = "body"
        /\ Contains(arg.responses[i].text, InvalidSessionMarker)}

AvailableSet == {CandidateUrl(arg.url, aura_endpoints[i]) : i \in AvailableIndexes}

\* C2: select_aura_endpoint returns the candidate built from s/sfsites/aura
\* whenever that candidate is available, and otherwise the first available
\* candidate in probe order.
C2_PrefersSfsitesCandidate ==
    (arg.fn = "select" /\ ret.done /\ ret.ok) =>
        IF 3 \in AvailableIndexes
            THEN ret.value = CandidateUrl(arg.url, aura_endpoints[3])
            ELSE ret.value =
                    CandidateUrl(arg.url,
                        aura_endpoints[CHOOSE i \in AvailableIndexes :
                                            \A j \in AvailableIndexes : i <= j])

\* C3: select_aura_endpoint fails with NoEndpointFoundError exactly when no
\* candidate is available; otherwise it returns a non-empty URL of the
\* available set.
C3_FailsIffNoneAvailable ==
    (arg.fn = "select" /\ ret.done) =>
        /\ (~ret.ok /\ ret.error = "NoEndpointFoundError") <=> (AvailableSet = {})
        /\ (AvailableSet # {}) =>
                (ret.ok /\ ret.value # <<>> /\ ret.value \in AvailableSet)

\* C3 witness: the selector has failed although a probe ended in a network
\* error and the other probes were answered.
C3_Witness ==
    /\ arg.fn = "select"
    /\ ret.done
    /\ ~ret.ok
    /\ \E i \in 1..Len(aura_endpoints) : arg.responses[i].kind = "error"
    /\ \E i \in 1..Len(aura_endpoints) : arg.responses[i].kind = "body"

\* The available candidates in probe order: the k-th is the candidate of
\* the k-th smallest available index.
OrderedAvailable ==
    [k \in 1..Cardinality(AvailableIndexes) |->
        CandidateUrl(arg.url,
            aura_endpoints[CHOOSE i \in AvailableIndexes :
                                Cardinality({j \in AvailableIndexes : j <= i}) = k])]

\* C14: the prober probes all four candidates in the order aura, s/aura,
\* s/sfsites/aura, sfsites/aura; a network error on one probe makes only
\* that candidate unavailable and the later candidates are still tried; the
\* available list keeps probe order.
C14_ProbesAllInOrder ==
    (arg.fn = "select" /\ ret.done) =>
        /\ Len(http) = 4
        /\ \A i \in 1..4 :
                /\ http[i].method = "POST"
                /\ http[i].url = CandidateUrl(arg.url, aura_endpoints[i])
        /\ aura_endpoints[1] = <<"a","u","r","a">>
        /\ aura_endpoints[2] = <<"s","/">> \o aura_endpoints[1]
        /\ aura_endpoints[4] = <<"s","f","s","i","t","e","s","/">> \o aura_endpoints[1]
        /\ aura_endpoints[3] = <<"s","/">> \o aura_endpoints[4]
        /\ check_endpoints_availability(arg.url, aura_endpoints, arg.responses, 1)
                = OrderedAvailable
        /\ (AvailableIndexes # {}) => ret.ok

\* C14 witness: the first probe ended in a network error, two later
\* candidates were available, and the selector returned one of them.
C14_Witness ==
    /\ arg.fn = "select"
    /\ ret.done
    /\ ret.ok
    /\ arg.responses[1].kind = "error"
    /\ Cardinality(AvailableIndexes) >= 2
    /\ Len(http) = 4

(***************************************************************************)
(* Specification SpecConfig: get_aura_config on landing pages with and     *)
(* without a client-side redirect.                                         *)
(***************************************************************************)
ConfigUrls == { <<"https://", "h">>, <<"https://", "h", "/", "p">> }

SessionIds == {NoSid, "SID"}

\* The blob as the site means it, before it is percent-encoded into the page.
FwuidValues == {JAbsent, JStr(<<>>), JStr(<<"ABC">>)}
AppValues == {JAbsent, JStr(<<"one">>), JStr(<<"s", ":", "a", "/", "%">>)}
LoadedValues ==
    {JAbsent, JNull, JObj(<<>>), JObj(<< <<"APPLICATION@markup://s:a", JStr(<<"h">>)>> >>)}

Item(key, v) == IF v = JAbsent THEN <<>> ELSE << <<key, v>> >>

Details ==
    {JObj(Item("fwuid", f) \o Item("app", a) \o Item("loaded", l)) :
        f \in FwuidValues, a \in AppValues, l \in LoadedValues}

Blobs == {NoBlob, BadBlob} \cup {QuoteBlob(d) : d \in Details}

\* Script tags: a bootstrap script, and a later inline script without src.
BootstrapTag == <<" ", "src=\"", "/", "b", ".js", "\"">>
OtherTag == <<" ", "src=\"", "/", "o", ".js", "\"", " ", "async">>
ScriptLists == {<<>>, <<BootstrapTag>>, <<BootstrapTag, OtherTag>>}

LoginUrl(url) == url \o <<"/", "l">>
ElsewhereUrl == <<"https://", "o", "/", "l">>

\* Landing pages without an assignment that starts with the base URL.
PlainPages ==
    {Page(r, s, t, b) : r \in {<<>>, <<ElsewhereUrl>>}, s \in ScriptLists,
                        t \in BOOLEAN, b \in Blobs}

\* Landing pages that redirect to the login page of the base URL.
RedirectingPages(url) ==
    {Page(r, s, FALSE, b) :
        r \in {<<LoginUrl(url)>>, <<ElsewhereUrl, LoginUrl(url)>>},
        s \in ScriptLists,
        b \in {NoBlob,
               QuoteBlob(JObj(Item("fwuid", JStr(<<"OLD">>)) \o Item("app", JStr(<<"one">>))
                              \o Item("loaded", JObj(<< <<"k", JStr(<<"h">>)>> >>))))}}

\* What the GET of the redirect target can answer; the login page may
\* itself carry a redirect assignment.
LoginPages(url) ==
    {Page(r, s, FALSE, b) :
        r \in {<<>>, <<LoginUrl(url)>>},
        s \in {<<>>, <<OtherTag>>},
        b \in {NoBlob} \cup
              {QuoteBlob(JObj(Item("fwuid", JStr(<<"ABC">>)) \o Item("app", JStr(<<"one">>))
                              \o Item("loaded", l))) :
                    l \in {JObj(<<>>), JObj(<< <<"k", JStr(<<"h">>)>> >>)}}}

ConfigInputs ==
    UNION {
        [fn : {"config"}, url : {u}, session_id : SessionIds,
         first : {PageResponse(p) : p \in PlainPages} \cup {NetError},
         second : {NetError}]
        \cup
        [fn : {"config"}, url : {u}, session_id : SessionIds,
         first : {PageResponse(p) : p \in RedirectingPages(u)},
         second : {PageResponse(p) : p \in LoginPages(u)} \cup {NetError}]
        : u \in ConfigUrls }

InitConfig ==
    /\ pc = "function"
    /\ obj = NoObj
    /\ argv = NoArgv
    /\ http = <<>>
    /\ entries = 0
    /\ arg \in ConfigInputs
    /\ ret = NotCalled

GetAuraConfig ==
    /\ arg.fn = "config"
    /\ ret = NotCalled
    /\ LET result == get_aura_config(arg.url, arg.session_id, arg.first, arg.second)
       IN  /\ ret' = Returned(result)
           /\ http' = result.requests
    /\ UNCHANGED <<pc, obj, argv, entries, arg>>

NextConfig == GetAuraConfig

SpecConfig == InitConfig /\ [][NextConfig]_vars

\* The landing page carries an assignment that starts with the base URL.
RedirectCase ==
    /\ arg.fn = "config"
    /\ arg.first.kind = "page"
    /\ \E i \in 1..Len(arg.first.page.redirects) :
            StartsWith(arg.first.page.redirects[i], arg.url)

\* C4: with a redirect assignment to a URL that starts with the base URL in
\* the landing page, exactly one more GET is issued, to a redirect target of
\* that page, also when the second body carries a redirect; get_aura_config
\* never issues more than two GETs.
C4_OneShotRedirect ==
    (arg.fn = "config" /\ ret.done) =>
        /\ Len(http) <= 2
        /\ \A i \in 1..Len(http) : http[i].method = "GET"
        /\ RedirectCase =>
            /\ Len(http) = 2
            /\ http[1].url = arg.url
            /\ http[2].url \in Range(arg.first.page.redirects)

\* C4 witness: a redirect was followed and the second body redirects again.
C4_Witness ==
    /\ RedirectCase
    /\ ret.done
    /\ arg.second.kind = "page"
    /\ \E i \in 1..Len(arg.second.page.redirects) :
            StartsWith(arg.second.page.redirects[i], arg.url)

\* The body the extraction steps work on, and the blob the site encoded
\* into it.
ScrapedPage == IF RedirectCase THEN arg.second.page ELSE arg.first.page

Encoded(blob) == \E d \in Details : QuoteBlob(d) = blob
Original(blob) == CHOOSE d \in Details : QuoteBlob(d) = blob

\* Every step before the validation succeeds on the scraped page.
ReachesValidation ==
    /\ arg.fn = "config"
    /\ arg.first.kind = "page"
    /\ RedirectCase => arg.second.kind = "page"
    /\ ScrapedPage.scripts # <<>>
    /\ Encoded(ScrapedPage.blob)
    /\ HasKey(Original(ScrapedPage.blob), "fwuid")

AllThreeTruthy(d) ==
    /\ Truthy(Get(d, "fwuid"))
    /\ Truthy(Get(d, "app"))
    /\ Truthy(Get(d, "loaded"))

\* C5: get_aura_config fails with MissingAuraFieldsError unless fwuid, app
\* and loaded are all present and truthy in the extracted details, and a
\* context it returns has all three present and truthy.
C5_RequiredFieldsTruthy ==
    (arg.fn = "config" /\ ret.done) =>
        /\ ret.ok =>
            /\ Truthy(ret.value.aura_config.json.fwuid)
            /\ Truthy(ret.value.aura_config.json.app)
            /\ Truthy(ret.value.aura_config.json.loaded)
        /\ (ReachesValidation /\ ~AllThreeTruthy(Original(ScrapedPage.blob))) =>
            (~ret.ok /\ ret.error = "MissingAuraFieldsError")
        /\ (ret.error = "MissingAuraFieldsError") =>
            ~(Encoded(ScrapedPage.blob) /\ AllThreeTruthy(Original(ScrapedPage.blob)))

\* C5 witness: fwuid and app are fine, loaded is the empty map, and the
\* call has failed on the validation.
C5_Witness ==
    /\ ReachesValidation
    /\ ret.done
    /\ ret.error = "MissingAuraFieldsError"
    /\ Truthy(Get(Original(ScrapedPage.blob), "fwuid"))
    /\ Truthy(Get(Original(ScrapedPage.blob), "app"))
    /\ Get(Original(ScrapedPage.blob), "loaded") = JObj(<<>>)

\* The context of a blob d: the fixed fields and d's three values.
ContextOf(d) ==
    [mode |-> "PROD", fwuid |-> Get(d, "fwuid"), app |-> Get(d, "app"),
     loaded |-> Get(d, "loaded"), dn |-> JList(<<>>), globals |-> JObj(<<>>),
     uad |-> JBool(FALSE)]

HasAllThreeKeys(d) ==
    /\ HasKey(d, "fwuid")
    /\ HasKey(d, "app")
    /\ HasKey(d, "loaded")

\* C6 as stated: every blob that carries fwuid, app and loaded, the empty
\* loaded map included, yields the context with the three values unchanged.
C6_EveryBlobWithKeysSucceeds ==
    (ReachesValidation /\ ret.done /\ HasAllThreeKeys(Original(ScrapedPage.blob))) =>
        /\ ret.ok
        /\ ret.value.aura_config.json = ContextOf(Original(ScrapedPage.blob))

\* C6 amended: every blob whose fwuid, app and loaded are present and truthy
\* yields the context {mode PROD, fwuid, app, loaded, dn [], globals {},
\* uad false} with the three values unchanged by the encoding round trip;
\* a blob with the empty loaded map is rejected.
C6_TruthyBlobRoundTrip ==
    (ReachesValidation /\ ret.done) =>
        LET d == Original(ScrapedPage.blob)
        IN  /\ AllThreeTruthy(d) =>
                /\ ret.ok
                /\ ret.value.aura_config.json = ContextOf(d)
            /\ (Get(d, "loaded") = JObj(<<>>)) => ~ret.ok

\* C6 witness: a context was built from a blob whose app needs escaping.
C6_Witness ==
    /\ ReachesValidation
    /\ ret.done
    /\ ret.ok
    /\ Get(Original(ScrapedPage.blob), "app") = JStr(<<"s", ":", "a", "/", "%">>)
    /\ ScrapedPage.blob # Original(ScrapedPage.blob)

\* Both GETs that get_aura_config issues were answered with a page.
PagesFetched ==
    /\ arg.fn = "config"
    /\ ret.done
    /\ arg.first.kind = "page"
    /\ RedirectCase => arg.second.kind = "page"

\* The bootstrap URL the last script tag of a body gives: scheme and host of
\* the base URL, then the tag's attributes without src=", quotes and blanks.
BootstrapUrlOf(page) ==
    Origin(arg.url) \o
        SelectSeq(page.scripts[Len(page.scripts)],
                  LAMBDA c : c \notin {"src=\"", "\"", " "})

\* C15 as stated: the bootstrap URL comes from the last script tag of the
\* body of the first GET, also when a redirect was followed, and
\* get_aura_config fails with the extraction error if that body has no
\* script tag.
C15_BootstrapFromFirstBody ==
    PagesFetched =>
        IF arg.first.page.scripts = <<>>
            THEN ~ret.ok /\ ret.error = "IndexError"
            ELSE ret.ok => ret.value.bootstrap_url = BootstrapUrlOf(arg.first.page)

\* C15 amended: the bootstrap URL comes from the last script tag of the
\* body redirect handling returns (the body of the second GET when a
\* redirect was followed, else the body of the first), and get_aura_config
\* fails with the extraction error if that body has no script tag.
C15_BootstrapFromResultingBody ==
    PagesFetched =>
        IF ScrapedPage.scripts = <<>>
            THEN ~ret.ok /\ ret.error = "IndexError"
            ELSE ret.ok => ret.value.bootstrap_url = BootstrapUrlOf(ScrapedPage)

\* C15 witness: a redirect was followed, both bodies carry script tags with
\* different last tags, and the extraction succeeded.
C15_Witness ==
    /\ PagesFetched
    /\ RedirectCase
    /\ ret.ok
    /\ arg.first.page.scripts # <<>>
    /\ arg.second.page.scripts # <<>>
    /\ BootstrapUrlOf(arg.first.page) # BootstrapUrlOf(arg.second.page)
    /\ ret.value.bootstrap_url = <<"https://", "h", "/", "o", ".js", "async">>

(***************************************************************************)
(* Aura action request: AuraActionRequest.                                 *)
(***************************************************************************)
\* What the POST can receive: an exception of the request, a body that is
\* not JSON, or a body json.loads parses.
NotJson == [kind |-> "text"]
JsonResponse(v) == [kind |-> "json", json |-> v]

\* AuraActionRequest.__init__ and the form values of send_request.
ActionValues(payload, config) ==
    [message |-> JsonDumps(payload),
     context |-> config.aura_config,
     token |-> config.aura_token]

\* The POST send_request issues: BasicHttp() is built without a session id.
ActionRequest(payload, config) ==
    Request(BasicHttp(NoSid), config.active_endpoint,
            ActionValues(payload, config), "POST")

\* response_json.get("actions")[0].get(...) on a value that is not a list
SubscriptError(actions) ==
    CASE actions.t = "obj" -> "KeyError"
      [] actions.t = "str" -> IF actions.s = <<>> THEN "IndexError" ELSE "AttributeError"
      [] OTHER -> "TypeError"

\* send_request after the raw-mode return: the unwrapping of the envelope.
Unwrap(response_json) ==
    IF response_json.t # "obj" THEN Raise("AttributeError")
    ELSE IF Get(response_json, "exceptionEvent") = JBool(TRUE)
        THEN Raise("AuraExceptionError")
    ELSE LET actions == Get(response_json, "actions")
         IN  IF IsNone(actions) THEN Raise("MalformedResponseError")
             ELSE IF actions.t # "list" THEN Raise(SubscriptError(actions))
             ELSE IF actions.items = <<>> THEN Raise("IndexError")
             ELSE IF actions.items[1].t # "obj" THEN Raise("AttributeError")
             ELSE IF IsNone(Get(actions.items[1], "state"))
                 THEN Raise("MalformedResponseError")
             ELSE Ok(Get(actions.items[1], "returnValue"))

\* send_request
send_request(payload, config, return_raw_response, response) ==
    LET result ==
            IF response.kind = "error" THEN Raise("TransportError")
            ELSE IF response.kind = "text" THEN Raise("ProtocolDecodeError")
            ELSE IF return_raw_response THEN Ok(response.json)
            ELSE Unwrap(response.json)
    IN  With(result, <<ActionRequest(payload, config)>>)

(***************************************************************************)
(* Specification SpecSend: send_request on every envelope, in both modes.  *)
(***************************************************************************)
\* A session context as the pipeline leaves it, without and with a session.
SendConfigs ==
    { [active_endpoint |-> CandidateUrl(<<"https://", "h">>, aura_endpoints[3]),
       aura_config |-> JsonDumps(JObj(<< <<"fwuid", JStr(<<"ABC">>)>> >>)),
       aura_token |-> t, session_id |-> sid] :
        t \in {"", "TOKEN"}, sid \in SessionIds }

SendPayload == JObj(<< <<"actions", JList(<<JObj(<< <<"descriptor", JStr(<<"d">>)>> >>)>>)>> >>)

ExceptionEventValues == {JAbsent, JBool(TRUE), JBool(FALSE), JStr(<<"true">>)}
StateValues == {JAbsent, JNull, JStr(<<"SUCCESS">>), JStr(<<"ERROR">>)}
ReturnValues == {JAbsent, JStr(<<>>), JObj(<< <<"x", JNum(1)>> >>)}

ActionEntries ==
    {JObj(Item("state", st) \o Item("returnValue", rv)) :
        st \in StateValues, rv \in ReturnValues}

ActionsValues ==
    {JAbsent, JNull, JList(<<>>), JList(<<JNull>>), JNum(0)}
    \cup {JList(<<a>>) : a \in ActionEntries}
    \cup {JList(<<a, JObj(<<>>)>>) : a \in {JObj(Item("state", JStr(<<"SUCCESS">>)))}}

Envelopes ==
    {JObj(Item("exceptionEvent", e) \o Item("actions", a)) :
        e \in ExceptionEventValues, a \in ActionsValues}
    \cup {JList(<<>>)}

SendResponses == {NetError, NotJson} \cup {JsonResponse(v) : v \in Envelopes}

SendInputs ==
    [fn : {"send"}, payload : {SendPayload}, config : SendConfigs,
     raw : BOOLEAN, response : SendResponses]

InitSend ==
    /\ pc = "function"
    /\ obj = NoObj
    /\ argv = NoArgv
    /\ http = <<>>
    /\ entries = 0
    /\ arg \in SendInputs
    /\ ret = NotCalled

SendRequest ==
    /\ arg.fn = "send"
    /\ ret = NotCalled
    /\ LET result == send_request(arg.payload, arg.config, arg.raw, arg.response)
       IN  /\ ret' = Returned(result)
           /\ http' = result.requests
    /\ UNCHANGED <<pc, obj, argv, entries, arg>>

NextSend == SendRequest

SpecSend == InitSend /\ [][NextSend]_vars

\* An envelope of the shape the claim speaks of: an object whose actions,
\* when present, is a list of objects.
ShapedEnvelope(v) ==
    /\ v.t = "obj"
    /\ LET a == Get(v, "actions")
       IN  \/ a.t = "null"
           \/ /\ a.t = "list"
              /\ \A i \in 1..Len(a.items) : a.items[i].t = "obj"

\* C7: in non-raw mode send_request fails with AuraExceptionError if
\* exceptionEvent is true; else with MalformedResponseError if actions is
\* absent or empty or actions[0].state is absent; else it returns
\* actions[0].returnValue.  There is no other outcome.
C7_UnwrapOrder ==
    (/\ arg.fn = "send" /\ ret.done /\ ~arg.raw
     /\ arg.response.kind = "json" /\ ShapedEnvelope(arg.response.json)) =>
        LET v == arg.response.json
            a == Get(v, "actions")
        IN  IF Get(v, "exceptionEvent") = JBool(TRUE)
                THEN ~ret.ok /\ ret.error = "AuraExceptionError"
            ELSE IF \/ a.t = "null"
                    \/ a.items = <<>>
                    \/ Get(a.items[1], "state").t = "null"
                THEN ~ret.ok /\ ret.error = "MalformedResponseError"
            ELSE ret.ok /\ ret.value = Get(a.items[1], "returnValue")

\* C9: every action POST of a session context with a session id carries the
\* sid cookie.
C9_ActionPostCarriesSid ==
    (arg.fn = "send" /\ ret.done /\ arg.config.session_id # NoSid) =>
        \A i \in 1..Len(http) :
            http[i].method = "POST" => <<"sid", arg.config.session_id>> \in http[i].cookies

(***************************************************************************)
(* Component/descriptor miner: AuraComponentCollector.                     *)
(***************************************************************************)
MarkupPrefix == <<"markup://">>

\* The union of the sets a sequence of results holds, or the error of the
\* first result that is one.
RECURSIVE Gather(_)
Gather(results) ==
    IF results = <<>> THEN Ok({})
    ELSE IF ~Head(results).ok THEN Head(results)
    ELSE LET rest == Gather(Tail(results))
         IN  IF rest.ok THEN Ok(Head(results).value \cup rest.value) ELSE rest

\* _find_component_descriptors: the loop over the items of an object.
\* value.startswith is called on whatever the key descriptor holds.
RECURSIVE find_component_descriptors(_)
find_component_descriptors(json_response) ==
    IF json_response.t # "obj" THEN Raise("AttributeError")
    ELSE Gather(
        [i \in 1..Len(json_response.kv) |->
            LET key == json_response.kv[i][1]
                value == json_response.kv[i][2]
            IN  IF key = "descriptor" /\ value.t # "str"
                    THEN Raise("AttributeError")
                ELSE IF key = "descriptor" /\ StartsWith(value.s, MarkupPrefix)
                    THEN Ok({Remove(value.s, {"markup://"})})
                ELSE IF value.t = "obj"
                    THEN find_component_descriptors(value)
                ELSE IF value.t = "list"
                    THEN Gather(
                        [j \in 1..Len(value.items) |->
                            IF value.items[j].t = "obj"
                                THEN find_component_descriptors(value.items[j])
                                ELSE Ok({})])
                ELSE Ok({})])

\* collect, for one route's response: the descriptors that contain none of
\* the excluded namespaces and are not yet in custom_components.
AddCustomComponents(custom_components, json_response, excluded) ==
    LET all_component_descriptors == find_component_descriptors(json_response)
    IN  IF ~all_component_descriptors.ok
            THEN all_component_descriptors
            ELSE Ok(custom_components \cup
                    {cmp \in all_component_descriptors.value :
                        ~\E x \in excluded : Contains(cmp, x)})

(***************************************************************************)
(* Specification SpecMiner: the miner on response trees.                   *)
(***************************************************************************)
\* IGNORELIST.json: the standard namespaces left out.
IgnoreList == { <<"forceCommunity">>, <<"siteforce">> }

DescriptorValues ==
    { JAbsent,
      JStr(<<"markup://", "c", ":", "Foo">>),
      JStr(<<"markup://", "forceCommunity", ":", "nav">>),
      JStr(<<"apex://", "c", ".", "Ctl">>),
      JNull,
      JNum(1),
      JObj(<< <<"name", JStr(<<"n">>)>> >>) }

InnerDescriptorValues ==
    { JStr(<<"markup://", "c", ":", "Bar">>),
      JStr(<<"markup://", "siteforce", ":", "app">>),
      JStr(<<"c", ":", "Baz">>),
      JList(<<>>) }

Described(v) == JObj(Item("descriptor", v) \o <<<<"state", JStr(<<"SUCCESS">>)>>>>)

\* What can sit beside the outer descriptor: a scalar, an object, an object
\* two levels down, objects in a list, and a list in a list.
Subtrees ==
    {JNull, JStr(<<"markup://", "c", ":", "NotUnderDescriptor">>)}
    \cup UNION {
        { Described(v),
          JObj(<< <<"componentDef", Described(v)>> >>),
          JList(<<JNum(1), Described(v), Described(JStr(<<"markup://", "c", ":", "Foo">>))>>),
          JList(<<JList(<<Described(v)>>)>>) } : v \in InnerDescriptorValues }

ResponseTrees ==
    {JObj(Item("descriptor", v) \o << <<"actions", JList(<<sub>>)>>, <<"context", sub2>> >>) :
        v \in DescriptorValues, sub \in Subtrees,
        sub2 \in {JNull, Described(JStr(<<"markup://", "c", ":", "Ctx">>))}}
    \cup {JList(<<>>)}

MinerInputs == [fn : {"mine"}, response : ResponseTrees]

InitMiner ==
    /\ pc = "function"
    /\ obj = NoObj
    /\ argv = NoArgv
    /\ http = <<>>
    /\ entries = 0
    /\ arg \in MinerInputs
    /\ ret = NotCalled

Mine ==
    /\ arg.fn = "mine"
    /\ ret = NotCalled
    /\ ret' = Returned(AddCustomComponents({}, arg.response, IgnoreList))
    /\ UNCHANGED <<pc, obj, argv, http, entries, arg>>

NextMiner == Mine

SpecMiner == InitMiner /\ [][NextMiner]_vars

\* Every string under a key named descriptor that starts with markup://,
\* in the object itself, in nested objects and in objects held in lists.
RECURSIVE MarkupDescriptors(_)
MarkupDescriptors(v) ==
    IF v.t = "obj"
        THEN UNION {
            LET key == v.kv[i][1]
                value == v.kv[i][2]
            IN  (IF key = "descriptor" /\ value.t = "str" /\ StartsWith(value.s, MarkupPrefix)
                    THEN {value.s} ELSE {})
                \cup
                (IF value.t = "obj" /\ key # "descriptor" THEN MarkupDescriptors(value)
                 ELSE IF value.t = "list"
                    THEN UNION {MarkupDescriptors(value.items[j]) :
                                    j \in {k \in 1..Len(value.items) : value.items[k].t = "obj"}}
                 ELSE {})
            : i \in 1..Len(v.kv)}
        ELSE {}

StripPrefix(d) == SubSeq(d, Len(MarkupPrefix) + 1, Len(d))

Standard(d) == \E x \in IgnoreList : Contains(d, x)

\* C8: for every response tree the miner's result holds every markup://
\* string found under a key named descriptor (prefix stripped) that contains
\* no standard-namespace substring, at any depth and inside objects held in
\* lists, and no descriptor that matches one; a descriptor key that holds a
\* non-string or non-markup value is skipped without error.
C8_MinesEveryCustomDescriptor ==
    (arg.fn = "mine" /\ ret.done /\ arg.response.t = "obj") =>
        /\ ret.ok
        /\ ret.value = {StripPrefix(d) : d \in {m \in MarkupDescriptors(arg.response) :
                                                    ~Standard(StripPrefix(m))}}

(***************************************************************************)
(* The typer callback: main, and the two stages it runs.                   *)
(***************************************************************************)
EmptyUrl == <<>>                     \* ""
EmptyConfig == JObj(<<>>)            \* {}

\* if url.endswith("/s"): url = url[:-2]; if url.endswith("/"): url = url[:-1]
StripUrl(url) ==
    LET url1 == IF EndsWith(url, <<"/", "s">>) THEN SubSeq(url, 1, Len(url) - 2) ELSE url
    IN  IF EndsWith(url1, <<"/">>) THEN SubSeq(url1, 1, Len(url1) - 1) ELSE url1

\* --token: absent, a JSON text, the same text after the shell took its
\* quotation marks, or a text json.loads rejects.
NoTokenJson == [form |-> "none"]
TokenJson(form, token, sid) == [form |-> form, token |-> token, sid |-> sid]
GarbageTokenJson == [form |-> "garbage"]

\* parse_token_from_shell: the quotation marks are put back where needed.
parse_token_from_shell(token_json) ==
    IF token_json.form \in {"json", "bare"}
        THEN Ok([token |-> token_json.token, sid |-> token_json.sid])
        ELSE Raise("JSONDecodeError")

\* SimpleNamespace(...) at the creation of the context.
NewContext(url, aura_token, session_id) ==
    [url |-> url,
     aura_token |-> aura_token,
     aura_bootstrap_url |-> EmptyUrl,
     session_id |-> session_id,
     active_endpoint |-> EmptyUrl,
     aura_config |-> EmptyConfig,
     routes |-> <<>>,
     custom_component_list |-> {}]

\* A mutant: the context is created on every entry of the callback.
ContextFor_AlwaysNew(context, url, aura_token, session_id) ==
    NewContext(url, aura_token, session_id)

\* if not cli_context.obj: cli_context.obj = SimpleNamespace(...)
ContextFor(context, url, aura_token, session_id) ==
    IF context = NoObj
        THEN NewContext(url, aura_token, session_id)
        ELSE context

\* arg in sys.argv for one of --help, --show-completion, --install-completion
HelpInArgv(args) == args.help # "none"

\* The condition under which main runs the two stages.
NeedsSetup(context, args) ==
    /\ ~(context.active_endpoint # EmptyUrl /\ context.aura_config # EmptyConfig)
    /\ ~HelpInArgv(args)

\* A failure that leaves the context as it was when the exception rose.
Fail(error, context) == [ok |-> FALSE, value |-> context, error |-> error]

\* select_aura_endpoint_after_validation; the selector's exception is not
\* caught.
select_aura_endpoint_after_validation(context, responses) ==
    IF context.active_endpoint # EmptyUrl
        THEN With(Ok(context), <<>>)
        ELSE LET selected == select_aura_endpoint(context.url, responses)
                 requests == ProbeRequests(context.url, aura_endpoints)
             IN  IF selected.ok
                    THEN With(Ok([context EXCEPT !.active_endpoint = selected.value]),
                              requests)
                    ELSE With(Fail(selected.error, context), requests)

\* get_aura_config_from_url; any exception of the loader ends in typer.Exit(1).
get_aura_config_from_url(context, first, second) ==
    IF context.aura_config # EmptyConfig
        THEN With(Ok(context), <<>>)
        ELSE LET loaded == get_aura_config(context.url, context.session_id, first, second)
             IN  IF loaded.ok
                    THEN With(Ok([context EXCEPT
                                    !.aura_config = loaded.value.aura_config,
                                    !.aura_bootstrap_url = loaded.value.bootstrap_url]),
                              loaded.requests)
                    ELSE With(Fail("Exit", context), loaded.requests)

\* A mutant: the two stages run in the other order.
main_ConfigBeforeSelect(context, args, responses, first, second) ==
    IF args.url = EmptyUrl THEN With(Fail("Exit", context), <<>>)
    ELSE
    LET url == StripUrl(args.url)
        token_details ==
            IF args.token_json = NoTokenJson
                THEN Ok([token |-> "", sid |-> NoSid])
                ELSE parse_token_from_shell(args.token_json)
    IN  IF ~token_details.ok THEN With(Fail(token_details.error, context), <<>>)
        ELSE
        LET created == ContextFor(context, url, token_details.value.token,
                                  token_details.value.sid)
        IN  IF ~NeedsSetup(created, args) THEN With(Ok(created), <<>>)
            ELSE
            LET configured == get_aura_config_from_url(created, first, second)
            IN  IF ~configured.ok THEN configured
                ELSE
                LET selected == select_aura_endpoint_after_validation(
                                    configured.value, responses)
                IN  With(selected, configured.requests \o selected.requests)

\* main: ok with the context the command will see, or the way the process
\* ends (typer.Exit or an exception nobody catches).
main(context, args, responses, first, second) ==
    IF args.url = EmptyUrl THEN With(Fail("Exit", context), <<>>)
    ELSE
    LET url == StripUrl(args.url)
        token_details ==
            IF args.token_json = NoTokenJson
                THEN Ok([token |-> "", sid |-> NoSid])
                ELSE parse_token_from_shell(args.token_json)
    IN  IF ~token_details.ok THEN With(Fail(token_details.error, context), <<>>)
        ELSE
        LET created == ContextFor(context, url, token_details.value.token,
                                  token_details.value.sid)
        IN  IF ~NeedsSetup(created, args) THEN With(Ok(created), <<>>)
            ELSE
            LET selected == select_aura_endpoint_after_validation(created, responses)
            IN  IF ~selected.ok THEN selected
                ELSE
                LET configured == get_aura_config_from_url(selected.value, first, second)
                IN  With(configured, selected.requests \o configured.requests)

(***************************************************************************)
(* Route collector: AuraRoutesCollector.                                   *)
(***************************************************************************)
AttributesMarker == "bootstrap.js?aura.attributes="
JwtMarker == "&jwt="

\* The index of the first occurrence of a token, 0 if there is none.
IndexOf(s, token) ==
    IF \E i \in 1..Len(s) : s[i] = token
        THEN CHOOSE i \in 1..Len(s) : s[i] = token /\ \A j \in 1..(i - 1) : s[j] # token
        ELSE 0

\* bootstrap_url.split(marker)[1].split("&jwt=")[0]
AttributesSegment(bootstrap_url) ==
    LET after == SubSeq(bootstrap_url, IndexOf(bootstrap_url, AttributesMarker) + 1,
                        Len(bootstrap_url))
        next == IndexOf(after, AttributesMarker)
        one == IF next = 0 THEN after ELSE SubSeq(after, 1, next - 1)
        jwt == IndexOf(one, JwtMarker)
    IN  IF jwt = 0 THEN one ELSE SubSeq(one, 1, jwt - 1)

\* json.loads(urllib.parse.unquote(segment)): the segment holds the keys and
\* values of a flat object in turn.
RECURSIVE ParsePairs(_)
ParsePairs(segment) ==
    IF Len(segment) < 2
        THEN <<>>
        ELSE << <<Unquote(<<segment[1]>>)[1], JStr(Unquote(<<segment[2]>>))>> >>
             \o ParsePairs(SubSeq(segment, 3, Len(segment)))

LoadsAttributes(segment) ==
    IF segment = <<>> \/ Len(segment) % 2 = 1
        THEN Raise("JSONDecodeError")
        ELSE Ok(JObj(ParsePairs(segment)))

\* The bootstrap script body: the routes map the pattern finds, or no match.
NoRoutesMatch == [t |-> "nomatch"]
ScriptResponse(routes_map) == [kind |-> "script", routes |-> routes_map]

RouteKeys == <<"id", "event", "route_uddid", "view_uuid">>
AttributeKeys == <<"themeLayoutType", "publishedChangelistNum", "brandingSetId">>

\* A mutant: view_uuid is filled from route_uddid.
RouteOf_ViewFromUddid(key, value, aura_attributes) ==
    [path |-> key,
     id |-> Get(value, "id"),
     event |-> Get(value, "event"),
     route_uddid |-> Get(value, "route_uddid"),
     view_uuid |-> Get(value, "route_uddid"),
     themeLayoutType |-> Get(aura_attributes, "themeLayoutType"),
     publishedChangelistNum |-> Get(aura_attributes, "publishedChangelistNum"),
     brandingSetId |-> Get(aura_attributes, "brandingSetId")]

\* dict(path=key, id=value["id"], ...)
RouteOf(key, value, aura_attributes) ==
    [path |-> key,
     id |-> Get(value, "id"),
     event |-> Get(value, "event"),
     route_uddid |-> Get(value, "route_uddid"),
     view_uuid |-> Get(value, "view_uuid"),
     themeLayoutType |-> Get(aura_attributes, "themeLayoutType"),
     publishedChangelistNum |-> Get(aura_attributes, "publishedChangelistNum"),
     brandingSetId |-> Get(aura_attributes, "brandingSetId")]

\* _extract_routes
extract_routes(bootstrap_url, raw_response) ==
    IF IndexOf(bootstrap_url, AttributesMarker) = 0 THEN Raise("IndexError")
    ELSE
    LET aura_attributes == LoadsAttributes(AttributesSegment(bootstrap_url))
        routes_map == raw_response.routes
    IN  IF ~aura_attributes.ok THEN aura_attributes
        ELSE IF routes_map = NoRoutesMatch THEN Raise("RoutesNotFoundError")
        ELSE IF \E i \in 1..Len(routes_map.kv) :
                    \/ routes_map.kv[i][2].t # "obj"
                    \/ \E k \in 1..Len(RouteKeys) : ~HasKey(routes_map.kv[i][2], RouteKeys[k])
            THEN Raise("KeyError")
        ELSE IF /\ routes_map.kv # <<>>
                /\ \E k \in 1..Len(AttributeKeys) :
                        ~HasKey(aura_attributes.value, AttributeKeys[k])
            THEN Raise("KeyError")
        ELSE Ok([i \in 1..Len(routes_map.kv) |->
                    RouteOf(routes_map.kv[i][1], routes_map.kv[i][2],
                            aura_attributes.value)])

\* AuraRoutesCollector.collect: the GET of the bootstrap URL, without cookie.
collect_routes(bootstrap_url, response) ==
    LET get == Request(BasicHttp(NoSid), bootstrap_url, NoValues, "GET")
    IN  IF response.kind = "error"
            THEN With(Raise("TransportError"), <<get>>)
            ELSE With(extract_routes(bootstrap_url, response), <<get>>)

\* get_routes
get_routes(context, response) ==
    LET routes == collect_routes(context.aura_bootstrap_url, response)
    IN  IF routes.ok
            THEN With(Ok([context EXCEPT !.routes = routes.value]), routes.requests)
            ELSE With(Fail(routes.error, context), routes.requests)

(***************************************************************************)
(* AuraComponentCollector.collect and the commands.                        *)
(***************************************************************************)
\* ACTION$getPageComponent.json, by the fields the collector overrides.
PayloadTemplate ==
    [descriptor |-> "getPageComponent",
     params |->
        [attributes |->
            [viewId |-> JStr(<<"template">>),
             routeType |-> JStr(<<"template">>),
             themeLayoutType |-> JStr(<<"template">>),
             params |-> [viewid |-> JStr(<<"template">>)]],
         publishedChangelistNum |-> JStr(<<"template">>),
         brandingSetId |-> JStr(<<"template">>)]]

\* A mutant: the nested params.viewid is left as the payload has it.
create_payload_for_getCustomComponents_KeepsViewid(route, payload) ==
    [payload EXCEPT
        !.params.attributes.viewId = route.id,
        !.params.attributes.routeType = route.event,
        !.params.attributes.themeLayoutType = route.themeLayoutType,
        !.params.publishedChangelistNum = route.publishedChangelistNum,
        !.params.brandingSetId = route.brandingSetId]

\* _create_payload_for_getCustomComponents: the template object itself is
\* written and returned.
create_payload_for_getCustomComponents(route, payload) ==
    [payload EXCEPT
        !.params.attributes.viewId = route.id,
        !.params.attributes.routeType = route.event,
        !.params.attributes.themeLayoutType = route.themeLayoutType,
        !.params.attributes.params.viewid = route.view_uuid,
        !.params.publishedChangelistNum = route.publishedChangelistNum,
        !.params.brandingSetId = route.brandingSetId]

\* AuraComponentCollector.collect from route i on: responses[i] answers the
\* request of route i; an exception ends the loop.
RECURSIVE collect_components(_, _, _, _, _, _, _)
\* A mutant: a route whose request failed is skipped and the loop goes on.
collect_components_SkipsFailedRoute(config, responses, excluded, i, payload_template, custom_components, requests) ==
    IF i > Len(config.routes)
        THEN With(Ok(custom_components), requests)
        ELSE
        LET payload == create_payload_for_getCustomComponents(config.routes[i],
                                                              payload_template)
            json_response == send_request(payload, config, TRUE, responses[i])
            sent == requests \o json_response.requests
        IN  IF ~json_response.ok
                THEN collect_components(config, responses, excluded, i + 1,
                                        payload, custom_components, sent)
                ELSE
                LET added == AddCustomComponents(custom_components,
                                                 json_response.value, excluded)
                IN  IF ~added.ok
                        THEN With(Raise(added.error), sent)
                        ELSE collect_components(config, responses, excluded, i + 1,
                                                payload, added.value, sent)

collect_components(config, responses, excluded, i, payload_template, custom_components, requests) ==
    IF i > Len(config.routes)
        THEN With(Ok(custom_components), requests)
        ELSE
        LET payload == create_payload_for_getCustomComponents(config.routes[i],
                                                              payload_template)
            json_response == send_request(payload, config, TRUE, responses[i])
            sent == requests \o json_response.requests
        IN  IF ~json_response.ok
                THEN With(Raise(json_response.error), sent)
                ELSE
                LET added == AddCustomComponents(custom_components,
                                                 json_response.value, excluded)
                IN  IF ~added.ok
                        THEN With(Raise(added.error), sent)
                        ELSE collect_components(config, responses, excluded, i + 1,
                                                payload, added.value, sent)

\* get_custom_components: routes are collected first when the context has
\* none.
get_custom_components(context, bootstrap_response, responses) ==
    LET routed ==
            IF context.routes = <<>>
                THEN get_routes(context, bootstrap_response)
                ELSE With(Ok(context), <<>>)
    IN  IF ~routed.ok THEN routed
        ELSE
        LET collected == collect_components(routed.value, responses, IgnoreList, 1,
                                            PayloadTemplate, {}, <<>>)
        IN  IF collected.ok
                THEN With(Ok([routed.value EXCEPT
                                !.custom_component_list = collected.value]),
                          routed.requests \o collected.requests)
                ELSE With(Fail(collected.error, routed.value),
                          routed.requests \o collected.requests)

\* The commands that send one action: the payload template of each, and
\* whether the full response is asked for.
ActionCommands ==
    {"sobjects", "records", "record", "feed-items", "search", "profile-menu",
     "call_apex"}

RawCommands == {"call_apex"}

CommandPayload(command) == [descriptor |-> command, params |-> [none |-> TRUE]]

\* The commands that catch an exception of send_request and end in
\* typer.Exit(1); search and profile-menu let it through.
CatchingCommands == {"sobjects", "records", "record", "feed-items", "call_apex"}

\* json_response["actions"][0]["returnValue"] and ["error"] in call_apex
call_apex_after_send(json_response) ==
    IF json_response.t # "obj" THEN "TypeError"
    ELSE IF ~HasKey(json_response, "actions") THEN "KeyError"
    ELSE LET actions == Get(json_response, "actions")
         IN  IF actions.t = "obj" THEN "KeyError"
             ELSE IF actions.t # "list" THEN "TypeError"
             ELSE IF actions.items = <<>> THEN "IndexError"
             ELSE IF actions.items[1].t # "obj" THEN "TypeError"
             ELSE IF ~HasKey(actions.items[1], "returnValue") THEN "KeyError"
             ELSE IF Truthy(Get(actions.items[1], "returnValue")) THEN ""
             ELSE IF ~HasKey(actions.items[1], "error") THEN "KeyError"
             ELSE ""

\* for recordWraper in json_response["result"]: recordWraper["record"]
records_after_send(json_response) ==
    IF json_response.t # "obj" THEN "AttributeError"
    ELSE LET result == Get(json_response, "result")
         IN  IF ~(Truthy(result) /\ Truthy(Get(json_response, "totalCount"))) THEN ""
             ELSE IF result.t # "list" THEN "TypeError"
             ELSE IF \E i \in 1..Len(result.items) : result.items[i].t # "obj"
                 THEN "TypeError"
             ELSE IF \E i \in 1..Len(result.items) : ~HasKey(result.items[i], "record")
                 THEN "KeyError"
             ELSE ""

\* What a command does with the value send_request returned: "" when the
\* command returns, else the exception that ends the process.
after_send(command, json_response) ==
    CASE command = "call_apex" -> call_apex_after_send(json_response)
      [] command = "sobjects" ->
            IF json_response.t # "obj" THEN "AttributeError"
            ELSE IF Get(json_response, "apiNamesToKeyPrefixes").t # "obj"
                THEN "AttributeError"
            ELSE ""
      [] command = "records" -> records_after_send(json_response)
      [] command = "record" ->
            IF json_response.t # "obj" THEN "AttributeError"
            ELSE IF Truthy(Get(json_response, "record")) THEN "" ELSE "Exit"
      [] command = "search" ->
            IF json_response.t # "obj" THEN "TypeError"
            ELSE IF ~HasKey(json_response, "result") THEN "KeyError"
            ELSE IF Truthy(Get(json_response, "result")) THEN "" ELSE "Exit"
      [] OTHER -> ""

\* list_accessible_sobjects, get_records, get_record, get_feed_items,
\* search_records, get_profile_menu, call_apex with their default options:
\* the one request each sends, and what follows it.  None writes the context.
action_command(context, command, response) ==
    LET sent == send_request(CommandPayload(command), context,
                             command \in RawCommands, response)
        error == IF sent.ok THEN after_send(command, sent.value)
                 ELSE IF command \in CatchingCommands THEN "Exit"
                 ELSE sent.error
    IN  IF error = ""
            THEN With(Ok(context), sent.requests)
            ELSE With(Fail(error, context), sent.requests)

(***************************************************************************)
(* Specification Spec: the CLI process.  The callback main runs, then the  *)
(* command typer dispatches to.  The callback may be entered again on the  *)
(* context object it left (the guards of main lines 73 and 86 and of the   *)
(* two stages are written for that).                                       *)
(***************************************************************************)
MaxEntries == 2
MaxRoutes == 2

\* --url as typed: empty, bare, and with the trailing /s and / forms.
UrlOptions ==
    { EmptyUrl,
      <<"https://", "h">>,
      <<"https://", "h", "/", "s">>,
      <<"https://", "h", "/", "s", "/">>,
      <<"https://", "h", "s", "/">> }

TokenOptions ==
    { NoTokenJson,
      TokenJson("json", "TOKEN", "SID"),
      TokenJson("bare", "TOKEN", ""),
      GarbageTokenJson }

\* How sys.argv holds a help or completion flag: not at all, as the option
\* typer answers by printing and ending, or as the value of an argument
\* (after --) or of an option, where the command still runs.
HelpForms == {"none", "flag", "value"}

ArgvInputs == [url : UrlOptions, token_json : TokenOptions, help : HelpForms]

Unavailable == Body(<<"404">>)
Available == Body(<<"{", "aura:invalidSession", "}">>)

ProbeVectors ==
    { <<Unavailable, NetError, Unavailable, Unavailable>>,
      <<NetError, Unavailable, Available, Available>>,
      <<Available, Unavailable, NetError, Unavailable>> }

RoutesTag ==
    <<" ", "src=\"", "/", AttributesMarker,
      "themeLayoutType", "Inner", "publishedChangelistNum", "12",
      "brandingSetId", "b1", JwtMarker, "J", "\"">>

GoodBlob ==
    QuoteBlob(JObj(<< <<"fwuid", JStr(<<"ABC">>)>>, <<"app", JStr(<<"s", ":", "a">>)>>,
                      <<"loaded", JObj(<< <<"k", JStr(<<"h">>)>> >>)>> >>))

LandingResponses(url) ==
    { NetError,
      PageResponse(Page(<<>>, <<OtherTag, RoutesTag>>, FALSE, GoodBlob)),
      PageResponse(Page(<<>>, <<RoutesTag>>, FALSE, NoBlob)),
      PageResponse(Page(<<LoginUrl(url)>>, <<OtherTag>>, FALSE, NoBlob)) }

LoginResponses(url) ==
    { NetError,
      PageResponse(Page(<<LoginUrl(url)>>, <<RoutesTag>>, FALSE, GoodBlob)) }

RouteEntry(path, keys) ==
    <<path, JObj([i \in 1..Len(keys) |-> <<keys[i], JStr(<<keys[i], path>>)>>])>>

RouteEntries ==
    { RouteEntry("/", RouteKeys),
      RouteEntry("/login", RouteKeys),
      RouteEntry("/broken", <<"id", "event">>) }

\* Route maps with up to MaxRoutes entries, no path twice.
RouteMaps ==
    UNION {
        {m \in [1..n -> RouteEntries] : \A i, j \in 1..n : i # j => m[i] # m[j]}
        : n \in 0..MaxRoutes }

\* What a request to a URL can receive: the empty URL is refused by the
\* requests library with an exception.
Answers(url, responses) == IF url = EmptyUrl THEN {NetError} ELSE responses

BootstrapResponses ==
    {NetError, ScriptResponse(NoRoutesMatch)}
    \cup {ScriptResponse(JObj(m)) : m \in RouteMaps}

ComponentResponses ==
    { NetError,
      JsonResponse(JObj(<< <<"actions", JList(<<Described(JStr(<<"markup://", "c", ":", "Foo">>))>>)>> >>)),
      JsonResponse(JObj(<< <<"exceptionEvent", JBool(TRUE)>>,
                           <<"event", Described(JStr(<<"markup://", "siteforce", ":", "err">>))>>,
                           <<"x", Described(JStr(<<"markup://", "c", ":", "Bar">>))>> >>)),
      JsonResponse(JObj(<< <<"actions", JList(<<Described(JNull)>>)>> >>)) }

CommandResponses ==
    { NetError, NotJson,
      JsonResponse(JObj(<< <<"actions", JList(<<JObj(<< <<"state", JStr(<<"SUCCESS">>)>>,
                                                       <<"returnValue", JObj(<< <<"x", JNum(1)>> >>)>> >>)>>)>> >>)),
      JsonResponse(JObj(<< <<"actions", JList(<<JObj(<< <<"state", JStr(<<"SUCCESS">>)>>,
                                                       <<"returnValue", JObj(<< <<"record", JObj(<< <<"Id", JStr(<<"001">>)>> >>)>>,
                                                                                <<"result", JList(<<JObj(<< <<"record", JNum(1)>> >>)>>)>>,
                                                                                <<"totalCount", JNum(1)>>,
                                                                                <<"apiNamesToKeyPrefixes", JObj(<< <<"User", JStr(<<"005">>)>> >>)>> >>)>> >>)>>)>> >>)),
      JsonResponse(JObj(<< <<"exceptionEvent", JBool(TRUE)>> >>)) }

Init ==
    /\ pc = "start"
    /\ obj = NoObj
    /\ argv = NoArgv
    /\ http = <<>>
    /\ entries = 0
    /\ arg = NoArg
    /\ ret = NotCalled

\* The callback: on the first entry the command line is read; a later entry
\* sees the same sys.argv and options.
Main ==
    /\ pc \in {"start", "done"}
    /\ entries < MaxEntries
    /\ \E args \in (IF pc = "start" THEN ArgvInputs ELSE {argv}) :
       \E responses \in ProbeVectors :
       \E first \in LandingResponses(StripUrl(args.url)) :
       \E second \in LoginResponses(StripUrl(args.url)) :
            LET result == main(obj, args, responses, first, second)
            IN  /\ argv' = args
                /\ obj' = result.value
                /\ http' = result.requests
                /\ pc' = IF ~result.ok THEN "exit"
                         ELSE IF args.help = "flag" THEN "help"
                         ELSE "ready"
    /\ entries' = entries + 1
    /\ UNCHANGED <<arg, ret>>

\* The command routes.
Routes ==
    /\ pc = "ready"
    /\ \E response \in Answers(obj.aura_bootstrap_url, BootstrapResponses) :
            LET result == get_routes(obj, response)
            IN  /\ obj' = result.value
                /\ http' = http \o result.requests
                /\ pc' = IF result.ok THEN "done" ELSE "exit"
    /\ UNCHANGED <<argv, entries, arg, ret>>

\* The routes the component collector will scan: those of the context, or
\* those get_routes collects first.
RoutesToScan(context, bootstrap_response) ==
    IF context.routes # <<>>
        THEN context.routes
        ELSE LET routed == get_routes(context, bootstrap_response)
             IN  IF routed.ok THEN routed.value.routes ELSE <<>>

\* The command custom-components: one answer per route scanned.
CustomComponents ==
    /\ pc = "ready"
    /\ \E bootstrap_response \in
            (IF obj.routes # <<>> THEN {NetError}
             ELSE Answers(obj.aura_bootstrap_url, BootstrapResponses)) :
       \E responses \in [1..Len(RoutesToScan(obj, bootstrap_response)) ->
                            Answers(obj.active_endpoint, ComponentResponses)] :
            LET result == get_custom_components(obj, bootstrap_response, responses)
            IN  /\ obj' = result.value
                /\ http' = http \o result.requests
                /\ pc' = IF result.ok THEN "done" ELSE "exit"
    /\ UNCHANGED <<argv, entries, arg, ret>>

\* A command that sends one action.
ActionCommand ==
    /\ pc = "ready"
    /\ \E command \in ActionCommands :
       \E response \in Answers(obj.active_endpoint, CommandResponses) :
            LET result == action_command(obj, command, response)
            IN  /\ obj' = result.value
                /\ http' = http \o result.requests
                /\ pc' = IF result.ok THEN "done" ELSE "exit"
    /\ UNCHANGED <<argv, entries, arg, ret>>

Next == Main \/ Routes \/ CustomComponents \/ ActionCommand

Spec == Init /\ [][Next]_vars

\* The requests of http that are Aura action POSTs.
ActionPosts == {i \in 1..Len(http) : http[i].values # NoValues}

\* C1: an action request is issued only with the active endpoint and the
\* Aura context of the session context both resolved; when the two stages
\* failed or were skipped, none is sent.
C1_ActionOnlyWhenResolved ==
    \A i \in ActionPosts :
        /\ http[i].url # EmptyUrl
        /\ http[i].values.context # EmptyConfig

Configured(context) == context # NoObj /\ context.aura_config # EmptyConfig

\* C10: once the Aura context is stored in the session context no later
\* step changes it, and an entry of the callback that finds it stored does
\* not run the config extractor (no GET is issued).
C10_ContextImmutableOnceBuilt ==
    [][Configured(obj) =>
        /\ Configured(obj')
        /\ obj'.aura_config = obj.aura_config
        /\ (entries' # entries) => \A i \in 1..Len(http') : http'[i].method # "GET"]_vars

\* C10 witness: the callback was entered a second time on a context whose
\* Aura context was built, after routes had been collected.
C10_Witness ==
    /\ entries = 2
    /\ pc = "ready"
    /\ Configured(obj)
    /\ obj.routes # <<>>

\* C12: the base URL stored in the session context and handed to the
\* pipeline ends neither with "/" nor with "/s", whatever --url was.
C12_BaseUrlStripped ==
    (obj # NoObj) =>
        /\ ~EndsWith(obj.url, <<"/">>)
        /\ ~EndsWith(obj.url, <<"/", "s">>)

\* The getPageComponent requests of http, in the order they were sent.
PageComponentPosts ==
    SelectSeq(http, LAMBDA r :
        /\ r.values # NoValues
        /\ r.values.message.json.descriptor = "getPageComponent")

\* The payload the template gives for one route alone.
FreshPayload(route) ==
    [descriptor |-> "getPageComponent",
     params |->
        [attributes |->
            [viewId |-> route.id,
             routeType |-> route.event,
             themeLayoutType |-> route.themeLayoutType,
             params |-> [viewid |-> route.view_uuid]],
         publishedChangelistNum |-> route.publishedChangelistNum,
         brandingSetId |-> route.brandingSetId]]

\* C16: the k-th getPageComponent request carries the payload the template
\* gives for the k-th route alone: that route's values in all six
\* overridden fields, and no value of a route processed before.
C16_PayloadOfOwnRoute ==
    (obj # NoObj) =>
        /\ Len(PageComponentPosts) <= Len(obj.routes)
        /\ \A k \in 1..Len(PageComponentPosts) :
                PageComponentPosts[k].values.message = JsonDumps(FreshPayload(obj.routes[k]))

\* C16 witness: two routes were scanned, the second after the first, and
\* their requests differ.
C16_Witness ==
    /\ obj # NoObj
    /\ Len(PageComponentPosts) = 2
    /\ obj.routes[1].path = "/login"
    /\ obj.routes[2].path = "/"
    /\ PageComponentPosts[1].values.message # PageComponentPosts[2].values.message

\* The positions in a request sequence of the GET of the base URL (the first
\* request of the config extractor) and of the getPageComponent requests.
LandingGets(requests, context) ==
    {i \in 1..Len(requests) :
        requests[i].method = "GET" /\ requests[i].url = context.url}

PageComponentIndexes(requests) ==
    {i \in 1..Len(requests) :
        /\ requests[i].values # NoValues
        /\ requests[i].values.message.json.descriptor = "getPageComponent"}

\* The four probes came first and the context holds one of their URLs.
ProbedBefore(requests, context, i) ==
    /\ i = Len(aura_endpoints) + 1
    /\ \A j \in 1..Len(aura_endpoints) :
            /\ requests[j].method = "POST"
            /\ requests[j].values = NoValues
            /\ requests[j].url = CandidateUrl(context.url, aura_endpoints[j])
    /\ context.active_endpoint \in
            {CandidateUrl(context.url, aura_endpoints[j]) : j \in 1..Len(aura_endpoints)}

\* Routes were in the context before the step, or the step fetched the
\* bootstrap script and stored routes before request i.
RoutesCollectedBefore(i) ==
    \/ obj # NoObj /\ obj.routes # <<>>
    \/ /\ obj'.routes # <<>>
       /\ \E j \in 1..(i - 1) :
            /\ http'[j].method = "GET"
            /\ http'[j].url = obj'.aura_bootstrap_url
            /\ j > Len(http)

\* C13: the config extractor sends its first request only after the four
\* probes, with an endpoint selected; a getPageComponent request is sent
\* only after route collection has completed (custom-components collects
\* the routes itself when the context has none).
C13_StagesInOrder ==
    [][/\ \A i \in LandingGets(http', obj') : ProbedBefore(http', obj', i)
       /\ \A i \in PageComponentIndexes(http') : RoutesCollectedBefore(i)]_vars

\* C13 witness: in a first entry the probes, the config extraction, the
\* route collection and a getPageComponent request happened, in this order.
C13_Witness ==
    /\ entries = 1
    /\ obj # NoObj
    /\ LandingGets(http, obj) = {5}
    /\ \E i \in PageComponentIndexes(http) :
        \E j \in 6..(i - 1) :
            /\ http[j].method = "GET"
            /\ http[j].url = obj.aura_bootstrap_url

(***************************************************************************)
(* Specification SpecStages: each pipeline stage on its own inputs (the    *)
(* selector, the config extractor, the route collector and the component   *)
(* collector), to compare what a stage received with how it ended.         *)
(***************************************************************************)
\* AuraRoutesCollector: config.aura_bootstrap_url with the page-layout
\* attributes percent-encoded into it (complete, with values that need
\* encoding, without brandingSetId), with and without &jwt=, and a script
\* URL that is no bootstrap.js URL; attributes is what the site encoded.
RoutesInputs ==
    LET AttributeSets ==
            { << <<"themeLayoutType", "Inner">>, <<"publishedChangelistNum", "12">>,
                 <<"brandingSetId", "b1">> >>,
              << <<"brandingSetId", "/">>, <<"themeLayoutType", "%">>,
                 <<"publishedChangelistNum", ":">> >>,
              << <<"themeLayoutType", "Inner">>, <<"publishedChangelistNum", "12">> >> }
        EncodedPairs(pairs) ==
            [i \in 1..(2 * Len(pairs)) |->
                QuoteChar(pairs[(i + 1) \div 2][IF i % 2 = 1 THEN 1 ELSE 2])]
        AttributesObject(pairs) ==
            JObj([i \in 1..Len(pairs) |-> <<pairs[i][1], JStr(<<pairs[i][2]>>)>>])
        BootstrapUrls ==
            { [url |-> <<"https://", "h", "/", AttributesMarker>>
                        \o EncodedPairs(a) \o tail,
               attributes |-> AttributesObject(a)] :
                a \in AttributeSets, tail \in {<<>>, <<JwtMarker, "J">>} }
            \cup { [url |-> <<"https://", "h", "/", "o", ".js", "async">>,
                    attributes |-> JObj(<<>>)] }
    IN  { [fn |-> "routes", bootstrap_url |-> b.url, attributes |-> b.attributes,
           response |-> r] : b \in BootstrapUrls, r \in BootstrapResponses }

\* AuraComponentCollector: a session context with up to MaxRoutes routes as
\* get_routes leaves them, and what the request of each route receives.
CollectInputs ==
    LET Attributes ==
            JObj(<< <<"themeLayoutType", JStr(<<"Inner">>)>>,
                    <<"publishedChangelistNum", JStr(<<"12">>)>>,
                    <<"brandingSetId", JStr(<<"b1">>)>> >>)
        Paths == {"/", "/login", "/x"}
        RouteLists ==
            UNION {
                {[i \in 1..n |-> RouteOf(m[i], RouteEntry(m[i], RouteKeys)[2], Attributes)] :
                    m \in {f \in [1..n -> Paths] : \A i, j \in 1..n : i # j => f[i] # f[j]}}
                : n \in 1..MaxRoutes }
        Config(routes) ==
            [active_endpoint |-> CandidateUrl(<<"https://", "h">>, aura_endpoints[3]),
             aura_config |-> JsonDumps(JObj(<< <<"fwuid", JStr(<<"ABC">>)>> >>)),
             aura_token |-> "TOKEN",
             session_id |-> "SID",
             routes |-> routes]
    IN  UNION {
            [fn : {"collect"}, config : {Config(r)},
             responses : [1..Len(r) -> ComponentResponses \cup {NotJson}]]
            : r \in RouteLists }

InitStages ==
    /\ pc = "function"
    /\ obj = NoObj
    /\ argv = NoArgv
    /\ http = <<>>
    /\ entries = 0
    /\ arg \in SelectInputs \cup ConfigInputs \cup RoutesInputs \cup CollectInputs
    /\ ret = NotCalled

\* AuraRoutesCollector(config).collect()
CollectRoutes ==
    /\ arg.fn = "routes"
    /\ ret = NotCalled
    /\ LET result == collect_routes(arg.bootstrap_url, arg.response)
       IN  /\ ret' = Returned(result)
           /\ http' = result.requests
    /\ UNCHANGED <<pc, obj, argv, entries, arg>>

\* AuraComponentCollector(config).collect()
Collect ==
    /\ arg.fn = "collect"
    /\ ret = NotCalled
    /\ LET result == collect_components(arg.config, arg.responses, IgnoreList, 1,
                                        PayloadTemplate, {}, <<>>)
       IN  /\ ret' = Returned(result)
           /\ http' = result.requests
    /\ UNCHANGED <<pc, obj, argv, entries, arg>>

NextStages == SelectAuraEndpoint \/ GetAuraConfig \/ CollectRoutes \/ Collect

SpecStages == InitStages /\ [][NextStages]_vars

\* The script body gave a routes map whose entries carry the four route
\* fields, and the bootstrap URL carries the three attributes.
RoutesMapParsed ==
    /\ arg.fn = "routes"
    /\ ret.done
    /\ arg.response.kind = "script"
    /\ arg.response.routes # NoRoutesMatch
    /\ \A i \in 1..Len(arg.response.routes.kv) :
            \A k \in {"id", "event", "route_uddid", "view_uuid"} :
                \E j \in 1..Len(arg.response.routes.kv[i][2].kv) :
                    arg.response.routes.kv[i][2].kv[j][1] = k
    /\ \A k \in {"themeLayoutType", "publishedChangelistNum", "brandingSetId"} :
            \E j \in 1..Len(arg.attributes.kv) : arg.attributes.kv[j][1] = k

\* The value an object holds under a key it carries once.
FieldOf(o, key) == o.kv[CHOOSE j \in 1..Len(o.kv) : o.kv[j][1] = key][2]

\* C17: the route collector emits exactly one Route per entry of the parsed
\* routes map, in the map's order, each with the entry's path, id, event,
\* route_uddid and view_uuid and the themeLayoutType, publishedChangelistNum
\* and brandingSetId decoded from the bootstrap URL.
C17_OneRoutePerEntry ==
    RoutesMapParsed =>
        /\ ret.ok
        /\ Len(ret.value) = Len(arg.response.routes.kv)
        /\ \A i \in 1..Len(arg.response.routes.kv) :
                LET key == arg.response.routes.kv[i][1]
                    value == arg.response.routes.kv[i][2]
                IN  ret.value[i] =
                        [path |-> key,
                         id |-> FieldOf(value, "id"),
                         event |-> FieldOf(value, "event"),
                         route_uddid |-> FieldOf(value, "route_uddid"),
                         view_uuid |-> FieldOf(value, "view_uuid"),
                         themeLayoutType |-> FieldOf(arg.attributes, "themeLayoutType"),
                         publishedChangelistNum |->
                            FieldOf(arg.attributes, "publishedChangelistNum"),
                         brandingSetId |-> FieldOf(arg.attributes, "brandingSetId")]

\* C17 witness: two routes were emitted, /login before /, with attributes
\* that were percent-encoded in the bootstrap URL.
C17_Witness ==
    /\ RoutesMapParsed
    /\ ret.ok
    /\ Len(ret.value) = 2
    /\ ret.value[1].path = "/login"
    /\ ret.value[2].path = "/"
    /\ ret.value[1].brandingSetId = JStr(<<"/">>)
    /\ Contains(arg.bootstrap_url, <<"%2F">>)

\* A response body that is an envelope with exceptionEvent true.
ExceptionEnvelope(response) ==
    /\ response.kind = "json"
    /\ response.json.t = "obj"
    /\ \E i \in 1..Len(response.json.kv) :
            response.json.kv[i] = <<"exceptionEvent", JBool(TRUE)>>

\* The selector, the extractor and the route collector end successfully
\* only if their precondition held: an endpoint was available; the body
\* carried a script tag and a blob with fwuid, app and loaded truthy; the
\* script was fetched and the routes pattern matched.  A probe that ended
\* in a network error does not make the selector fail.
FirstStagesFailFast ==
    /\ (arg.fn = "select" /\ ret.done) => (ret.ok <=> AvailableSet # {})
    /\ (arg.fn = "config" /\ ret.done /\ ret.ok) =>
            /\ PagesFetched
            /\ ScrapedPage.scripts # <<>>
            /\ ScrapedPage.blob.t = "obj"
            /\ AllThreeTruthy(ScrapedPage.blob)
    /\ (arg.fn = "routes" /\ ret.done /\ ret.ok) =>
            /\ arg.response.kind = "script"
            /\ arg.response.routes # NoRoutesMatch

\* C11 as stated: every stage that meets a failed precondition or step ends
\* with an error and never successfully; for the component collector also
\* when the request of a route is answered with an exception envelope.
C11_StagesFailFast ==
    /\ FirstStagesFailFast
    /\ (arg.fn = "collect" /\ ret.done /\ ret.ok) =>
            \A i \in 1..Len(arg.config.routes) :
                /\ arg.responses[i].kind = "json"
                /\ ~ExceptionEnvelope(arg.responses[i])

\* C11 amended: as stated for the selector, the extractor and the route
\* collector; the component collector ends with an error when the request
\* of a route fails in the transport or is answered with a body that is not
\* JSON, and mines an exception envelope like any other envelope.
C11_StagesFailFastRawEnvelope ==
    /\ FirstStagesFailFast
    /\ (arg.fn = "collect" /\ ret.done /\ ret.ok) =>
            \A i \in 1..Len(arg.config.routes) : arg.responses[i].kind = "json"
    /\ (/\ arg.fn = "collect" /\ ret.done
        /\ \A i \in 1..Len(arg.config.routes) :
                \/ ExceptionEnvelope(arg.responses[i])
                \/ arg.responses[i] = JsonResponse(JObj(<< <<"actions",
                        JList(<<Described(JStr(<<"markup://", "c", ":", "Foo">>))>>)>> >>))) => ret.ok

\* C11 witness: the collector has failed on the second route's transport
\* error after the first route was answered with an exception envelope.
C11_Witness ==
    /\ arg.fn = "collect"
    /\ ret.done
    /\ ~ret.ok
    /\ ret.error = "TransportError"
    /\ Len(arg.config.routes) = 2
    /\ ExceptionEnvelope(arg.responses[1])
    /\ arg.responses[2] = NetError
    /\ Len(http) = 2

====
